---- MODULE Spec2Model ----
(***************************************************************************)
(* Model of multicall-go: a MulticallClient batches read-only contract     *)
(* calls through the Multicall3 contract's aggregate3 entry point, one     *)
(* eth_call per chunk, and decodes the per-call results.                   *)
(*                                                                         *)
(* Byte strings are sequences of symbolic bytes (strings); only their      *)
(* length and identity matter to the code.  A Go pointer is a sequence:    *)
(* <<>> is nil and <<x>> points to x.                                      *)
(***************************************************************************)
EXTENDS Integers, Sequences, FiniteSets, TLC

\* ---------------------------------------------------------------- bounds
\* longest request handed to DoMany / DoManyAllowFailures
MaxCalls == 2
\* the chain mines blocks 1..MaxBlock while requests are in progress
MaxBlock == 2
\* width at which Go's uint64 -> int conversion is modelled
IntBits == 16

\* ------------------------------------------------------- program constants
\* multicall.go:114, the default batch size
DefaultMaxBatchSize == 8192
\* multicall.go:107, the Multicall3 deployment address
DefaultAddress == "0xcA11bde05977b3631167028862bE2a173976CA11"

Nil == <<>>
Ptr(x) == <<x>>
Deref(p) == p[1]
OtherMulticall == "0xOtherMulticall3"
NFT == "0x60E4d786628Fea6478F785A6d7e704777c86a7c6"
EOA == "0x742d35Cc6634C0532925a3b844Bc454e4438f44e"

RECURSIVE Pow2(_)
Pow2(n) == IF n = 0 THEN 1 ELSE 2 * Pow2(n - 1)

\* the largest value of the (width-reduced) unsigned type of MaxBatchSize
MaxUint == Pow2(IntBits) - 1

\* Go's int(u) of an unsigned u: the same bits read as two's complement
IntOfUint(u) == IF u >= Pow2(IntBits - 1) THEN u - Pow2(IntBits) ELSE u

\* ------------------------------------------------------------ the client
\* the context.Context the caller hands to NewMulticallClient
CallerCtx == "ctx"

\* *bind.CallOpts: nil ("latest" block, background context) or a pinned block
\* number together with the caller's context
CallOptsSet == {Nil, Ptr([BlockNumber |-> 1, Context |-> Ptr(CallerCtx)])}

\* the *TMulticallClientOptions a caller may pass: nil, or a record
OptionsSet ==
  {Nil} \cup
  { Ptr([OverrideContractAddress |-> Nil, MaxBatchSizeBytes |-> n,
         OverrideCallOptions |-> Nil]) : n \in {0, 1, 3, MaxUint} } \cup
  { Ptr([OverrideContractAddress |-> Ptr(OtherMulticall), MaxBatchSizeBytes |-> 2,
         OverrideCallOptions |-> o]) : o \in CallOptsSet \ {Nil} }

NewMulticallClient_KeepsZeroBatchSize(ctx, options) ==
  [Address |->
      IF options = Nil \/ Deref(options).OverrideContractAddress = Nil
      THEN DefaultAddress ELSE Deref(Deref(options).OverrideContractAddress),
   Context |-> ctx,
   MaxBatchSize |->
      IF options = Nil THEN DefaultMaxBatchSize ELSE Deref(options).MaxBatchSizeBytes,
   OverrideCallOptions |->
      IF options # Nil THEN Deref(options).OverrideCallOptions ELSE Nil]

\* eth is taken to be non-nil (the "no ethclient passed" return is not a client)
NewMulticallClient(ctx, options) ==
  [Address |->
      IF options = Nil \/ Deref(options).OverrideContractAddress = Nil
      THEN DefaultAddress ELSE Deref(Deref(options).OverrideContractAddress),
   Context |-> ctx,
   MaxBatchSize |->
      IF options = Nil \/ Deref(options).MaxBatchSizeBytes = 0
      THEN DefaultMaxBatchSize ELSE Deref(options).MaxBatchSizeBytes,
   OverrideCallOptions |->
      IF options # Nil THEN Deref(options).OverrideCallOptions ELSE Nil]

\* ------------------------------------------------------ call descriptors
\* MultiCallMetaData[T]: Address, Data, FunctionName, the result type T and the
\* Deserialize closure: "abi" is the one Describe binds, "custom" a caller's own.
GetBlockNumber(c) ==
  [Address |-> c.Address, Data |-> <<"getBlockNumber">>,
   FunctionName |-> "getBlockNumber", T |-> "big.Int", Deserialize |-> "abi"]

GetBalance(c, address) ==
  [Address |-> c.Address, Data |-> <<"getEthBalance", address>>,
   FunctionName |-> "getEthBalance", T |-> "big.Int", Deserialize |-> "abi"]

\* Describe[T](contractAddress, abi, method, params...): Data is selector ++ params
Describe(T, contractAddress, method, params) ==
  [Address |-> contractAddress, Data |-> <<method>> \o params,
   FunctionName |-> method, T |-> T, Deserialize |-> "abi"]

\* DescribeWithDeserialize with a caller-supplied decoder and a pre-encoded payload
DescribeWithDeserialize(T, contractAddress, method, callData) ==
  [Address |-> contractAddress, Data |-> callData,
   FunctionName |-> method, T |-> T, Deserialize |-> "custom"]

\* the descriptors a caller builds in the explored runs
Descriptors(c) ==
  { GetBlockNumber(c),
    GetBalance(c, EOA),
    Describe("big.Int", NFT, "balanceOf", <<"0x0", "pad">>),
    Describe("big.Int", EOA, "balanceOf", <<EOA>>),
    DescribeWithDeserialize("big.Int", EOA, "custom", <<>>),
    Describe("common.Address", NFT, "ownerOf", <<"0", "pad">>) }

Types == {"big.Int", "common.Address"}


\* ------------------------------------------------------------ errors
\* An error value is a pointer to its message, kept as the sequence of the
\* pieces it was formatted from; the nil error is Nil.
NewError(msg) == Ptr(<<msg>>)
Errorf(prefix, err) == Ptr(<<prefix>> \o Deref(err))

\* ------------------------------------------------------------ byte slices
\* A []byte handed back by the ABI decoder: nil, or its bytes
NilBytes == [isNil |-> TRUE, b |-> <<>>]
Bytes(b) == [isNil |-> FALSE, b |-> b]

\* ----------------------------------------------- the chain (collaborator)
\* What one call of an aggregate3 batch returns when evaluated at block blk:
\* a call to an account without code succeeds with empty return data, a
\* reverting call reports success = false, getBlockNumber returns blk.
EvalCall(call, blk) ==
  LET d == call.CallData IN
  IF call.Target = EOA THEN [Success |-> TRUE, ReturnData |-> <<>>]
  ELSE IF d = <<>> THEN [Success |-> FALSE, ReturnData |-> <<>>]
  ELSE IF d[1] = "getBlockNumber" THEN [Success |-> TRUE, ReturnData |-> <<ToString(blk)>>]
  ELSE IF d[1] = "getEthBalance" THEN [Success |-> TRUE, ReturnData |-> <<"balance">>]
  ELSE IF d[1] = "balanceOf" /\ d[2] # "0x0" THEN [Success |-> TRUE, ReturnData |-> <<"count">>]
  ELSE IF d[1] = "ownerOf" /\ d[2] = "0" THEN [Success |-> TRUE, ReturnData |-> <<"owner">>]
  ELSE [Success |-> FALSE, ReturnData |-> <<>>]

\* The block an eth_call is evaluated at: the pinned one of the call options,
\* else the latest
EvalBlock(opts, latest) == IF opts = Nil THEN latest ELSE Deref(opts).BlockNumber

\* abi.ConvertType(res[0], new([]Multicall3Result)): the results as Go values;
\* asNil tells whether the ABI decoder hands zero-length bytes back as a nil slice
ToMulticall3Result(r, asNil) ==
  [Success |-> r.Success,
   ReturnData |-> IF r.ReturnData = <<>> /\ asNil THEN NilBytes ELSE Bytes(r.ReturnData)]

\* the answer of a well-behaved aggregate3 to one chunk: one result per call, in order
Aggregate3(multicalls, blk, asNil) ==
  [j \in 1..Len(multicalls) |-> ToMulticall3Result(EvalCall(multicalls[j], blk), asNil)]

\* ------------------------------------------------------------ helpers
\* filterCollection and mapCollection of the helpers file (lines 12-20 and 4-10)
filterCollection(coll, criteria(_)) == SelectSeq(coll, criteria)

mapCollection(coll, mapper(_, _)) == [i \in 1..Len(coll) |-> mapper(coll[i], i)]

\* ------------------------------------------------------------ chunkCalls
\* faulty variant: the size of the call being added is left out of the test
BatchIsFull_IgnoresCall(currentBatchSize, callLen, maxBatchSizeBytes) ==
  currentBatchSize > maxBatchSizeBytes

\* faulty variant: a batch filled exactly to the limit counts as overfull
BatchIsFull_AtLimit(currentBatchSize, callLen, maxBatchSizeBytes) ==
  (currentBatchSize + callLen) >= maxBatchSizeBytes

\* the test of line 35: the call does not fit in the current batch
BatchIsFull(currentBatchSize, callLen, maxBatchSizeBytes) ==
  (currentBatchSize + callLen) > maxBatchSizeBytes

\* faulty variant: the last batch is never appended
FlushLast_Forgets(results, currentBatch) == results

\* faulty variant: the last batch is appended without looking at its length
FlushLast_Always(results, currentBatch) == Append(results, currentBatch)

\* lines 46-49: the last batch is appended when it is not empty
FlushLast(results, currentBatch) ==
  IF Len(currentBatch) > 0 THEN Append(results, currentBatch) ELSE results

RECURSIVE chunkLoop(_, _, _, _, _, _)
chunkLoop(allCalls, i, results, currentBatchSize, currentBatch, maxBatchSizeBytes) ==
  IF i > Len(allCalls) THEN FlushLast(results, currentBatch)
  ELSE LET call == allCalls[i]
           full == BatchIsFull(currentBatchSize, Len(call.CallData), maxBatchSizeBytes)
           results2 == IF full THEN Append(results, currentBatch) ELSE results
           size2 == IF full THEN 0 ELSE currentBatchSize
           batch2 == IF full THEN <<>> ELSE currentBatch
       IN chunkLoop(allCalls, i + 1, results2, size2 + Len(call.CallData),
                    Append(batch2, call), maxBatchSizeBytes)

chunkCalls(allCalls, maxBatchSizeBytes) ==
  chunkLoop(allCalls, 1, <<>>, 0, <<>>, maxBatchSizeBytes)


\* ------------------------------------------------------------ values
\* A Go value of type any: a *T pointing to the decoded words v, or an error
TypedPtr(T, v) == [kind |-> "ptr", T |-> T, v |-> v]
ErrorValue(err) == [kind |-> "error", T |-> "error", v |-> Deref(err)]
\* the zero value of *T
NilPtr(T) == [kind |-> "ptr", T |-> T, v |-> <<"<nil>">>]

\* val, ok := any(value).(*T)
TypeAssertOk(value, T) == value.kind = "ptr" /\ value.T = T

\* ------------------------------------------------------------ decoding
\* contractAbi.Unpack(method, b) of the ABI collaborator: empty output is an error
Unpack(method, b) ==
  IF b = <<>>
  THEN [res |-> <<>>, err |-> NewError("abi: attempting to unmarshal an empty string")]
  ELSE [res |-> <<b>>, err |-> Nil]

\* the Go type Unpack yields for the first output of a method: uint256 outputs
\* come back as big.Int, ownerOf's address output as common.Address
OutputType(method) == IF method = "ownerOf" THEN "common.Address" ELSE "big.Int"

\* abi.ConvertType(in, new(T)) of the ABI collaborator hands back a *T, or
\* panics when the value cannot be converted to T
ConvertTypePanics(inType, T) == inType # T

\* the closure Describe binds (lines 151-158): it returns (val, err) or panics
DescribeDeserialize(T, method, b) ==
  LET u == Unpack(method, b) IN
  IF u.err # Nil THEN [val |-> NilPtr(T), err |-> u.err, panic |-> FALSE]
  ELSE IF ConvertTypePanics(OutputType(method), T)
  THEN [val |-> NilPtr(T), err |-> Nil, panic |-> TRUE]
  ELSE [val |-> TypedPtr(T, u.res[1]), err |-> Nil, panic |-> FALSE]

\* a caller's own decoder: accepts any bytes, the value is their count
CustomDeserialize(T, b) ==
  [val |-> TypedPtr(T, <<ToString(Len(b))>>), err |-> Nil, panic |-> FALSE]

\* md.Deserialize(data)
Deserialize(md, b) ==
  IF md.Deserialize = "abi" THEN DescribeDeserialize(md.T, md.FunctionName, b)
  ELSE CustomDeserialize(md.T, b)

\* MultiCallMetaData.Raw: the type-erased descriptor; its Deserialize calls md's
Raw(md) ==
  [Address |-> md.Address, Data |-> md.Data, FunctionName |-> md.FunctionName,
   Deserialize |-> md]

\* faulty variant: the calls are marked as not allowed to fail
TypedCall_Strict(call) ==
  [Target |-> call.Address, AllowFailure |-> FALSE, CallData |-> call.Data]

\* doMultiCallMany lines 276-283
TypedCall(call) ==
  [Target |-> call.Address, AllowFailure |-> TRUE, CallData |-> call.Data]

TypedCalls(calls) == [i \in 1..Len(calls) |-> TypedCall(calls[i])]

\* faulty variant: every chunk's results are written from index 0
StoreResults_NoOffset(results, totalResults, multicallResults) ==
  [panic |-> Len(multicallResults) > Len(results),
   results |-> [i \in 1..Len(results) |->
                  IF i <= Len(multicallResults)
                  THEN Ptr(multicallResults[i]) ELSE results[i]],
   totalResults |-> totalResults + Len(multicallResults)]

\* doMultiCallMany lines 300-303: the chunk's results are written after the
\* totalResults already stored; writing past the end of results panics
StoreResults(results, totalResults, multicallResults) ==
  [panic |-> totalResults + Len(multicallResults) > Len(results),
   results |-> [i \in 1..Len(results) |->
                  IF i > totalResults /\ i <= totalResults + Len(multicallResults)
                  THEN Ptr(multicallResults[i - totalResults]) ELSE results[i]],
   totalResults |-> totalResults + Len(multicallResults)]

\* faulty variant: the decoder's error and a nil ReturnData are ignored
DecodeOne_TrustsSuccess(call, res) ==
  LET d == Deserialize(call.Deserialize, res.ReturnData.b) IN
  [Value |-> d.val, Success |-> res.Success]

\* faulty variant: an entry whose decoder failed keeps the call's success flag
DecodeOne_KeepsSuccessFlag(call, res) ==
  IF res.Success
  THEN IF ~res.ReturnData.isNil
       THEN LET d == Deserialize(call.Deserialize, res.ReturnData.b) IN
            IF d.err # Nil
            THEN [Value |-> ErrorValue(d.err), Success |-> res.Success]
            ELSE [Value |-> d.val, Success |-> res.Success]
       ELSE [Value |-> ErrorValue(NewError("no data returned")), Success |-> FALSE]
  ELSE [Success |-> FALSE, Value |-> ErrorValue(NewError("call failed"))]

\* doMultiCallMany lines 308-334, one entry
DecodeOne(call, res) ==
  IF res.Success
  THEN IF ~res.ReturnData.isNil
       THEN LET d == Deserialize(call.Deserialize, res.ReturnData.b) IN
            IF d.err # Nil
            THEN [Value |-> ErrorValue(d.err), Success |-> FALSE]
            ELSE [Value |-> d.val, Success |-> res.Success]
       ELSE [Value |-> ErrorValue(NewError("no data returned")), Success |-> FALSE]
  ELSE [Success |-> FALSE, Value |-> ErrorValue(NewError("call failed"))]

\* the conditions under which the decoder of one entry is run (lines 309-311)
DecodeInvoked(call, res) == res.Success /\ ~res.ReturnData.isNil

\* the decoder of one entry is run (lines 311-313) and panics
DecodePanics(call, res) ==
  /\ DecodeInvoked(call, res)
  /\ Deserialize(call.Deserialize, res.ReturnData.b).panic

\* the indexes at which the loop of lines 307-335 runs the decoder, in order;
\* the loop ends at the first entry that panics
DecodeLog(calls, results) ==
  LET stops == {i \in 1..Len(calls) :
                  \/ results[i] = Nil
                  \/ results[i] # Nil /\ DecodePanics(calls[i], Deref(results[i]))}
      last == IF stops = {} THEN Len(calls)
              ELSE CHOOSE i \in stops : \A j \in stops : i <= j
  IN SelectSeq([i \in 1..last |-> i],
               LAMBDA i : results[i] # Nil /\ DecodeInvoked(calls[i], Deref(results[i])))

\* doMultiCallMany lines 306-337; results[i].(Multicall3Result) panics on a
\* slot no chunk filled, and a panic of a decoder is not recovered
DecodeOutputs(calls, results) ==
  IF \E i \in 1..Len(calls) :
       \/ results[i] = Nil
       \/ results[i] # Nil /\ DecodePanics(calls[i], Deref(results[i]))
  THEN [panic |-> TRUE, outputs |-> <<>>]
  ELSE [panic |-> FALSE,
        outputs |-> [i \in 1..Len(calls) |-> DecodeOne(calls[i], Deref(results[i]))]]


\* ------------------------------------------------------ the public forms
\* what a public form hands back: it returns (err, values) or it panics
Returned(err, values) == [status |-> "returned", err |-> err, values |-> values]
Panicked == [status |-> "panic", err |-> Nil, values |-> Nil]

\* faulty variant: the failed entries are not looked for
DoManyReturn_NoFilter(res, A) ==
  Returned(Nil, Ptr(mapCollection(res, LAMBDA d, i : d.Value)))

\* faulty variant: the first failed entry's own error is returned
DoManyReturn_ReportsFirst(res, A) ==
  LET anyFailures == filterCollection(res, LAMBDA cur : ~cur.Success) IN
  IF Len(anyFailures) > 0 THEN Returned(Ptr(anyFailures[1].Value.v), Nil)
  ELSE Returned(Nil, Ptr(mapCollection(res, LAMBDA d, i : d.Value)))

\* DoMany lines 212-224, on the outputs of doMultiCallMany
DoManyReturn(res, A) ==
  LET anyFailures == filterCollection(res, LAMBDA cur : ~cur.Success) IN
  IF Len(anyFailures) > 0 THEN Returned(NewError("1 or more calls failed"), Nil)
  ELSE IF \E i \in 1..Len(res) : ~TypeAssertOk(res[i].Value, A) THEN Panicked
  ELSE Returned(Nil, Ptr(mapCollection(res, LAMBDA d, i : d.Value)))

\* faulty variant: a failed entry fails the whole request, as in DoMany
DoManyAllowFailuresReturn_FailsFast(res, A) ==
  IF \E i \in 1..Len(res) : ~res[i].Success
  THEN Returned(NewError("1 or more calls failed"), Nil)
  ELSE Returned(Nil, Ptr(mapCollection(res, LAMBDA d, i :
         [Value |-> d.Value, Success |-> d.Success, Error |-> Nil])))

\* DoManyAllowFailures lines 258-272; the Error field is never assigned
DoManyAllowFailuresReturn(res, A) ==
  Returned(Nil, Ptr(mapCollection(res, LAMBDA d, i :
    IF ~TypeAssertOk(d.Value, A)
    THEN [Value |-> NilPtr(A), Success |-> FALSE, Error |-> Nil]
    ELSE [Value |-> d.Value, Success |-> d.Success, Error |-> Nil])))

\* Do, Do3 .. Do6 lines 169, 177, 185, 193, 201: res[k].Value.(*T_k), unchecked
DoFixedReturn(res, types) ==
  IF \E k \in 1..Len(types) : ~TypeAssertOk(res[k].Value, types[k]) THEN Panicked
  ELSE Returned(Nil, Ptr([k \in 1..Len(types) |-> res[k].Value]))

\* faulty variant: the error of doMultiCallMany is swallowed
WrapError_DropsError(name, err) == Returned(Nil, Nil)

\* the err # nil branch of each public form
WrapError(name, err) ==
  IF name = "DoFixed" THEN Returned(Errorf("error performing multicall: ", err), Nil)
  ELSE Returned(Errorf("multicall failed: ", err), Nil)

\* the rest of a public form once doMultiCallMany has its outputs
FormReturn(name, types, res) ==
  IF name = "DoMany" THEN DoManyReturn(res, types[1])
  ELSE IF name = "DoManyAllowFailures" THEN DoManyAllowFailuresReturn(res, types[1])
  ELSE DoFixedReturn(res, types)

\* ------------------------------------------------------------ state
VARIABLES
  options,       \* the options NewMulticallClient was called with
  mc,            \* the MulticallClient it returned
  emptyAsNil,    \* whether the ABI decoder yields nil for zero-length bytes
  block,         \* the chain's latest block
  cancelled,     \* whether the caller has cancelled CallerCtx
  other,         \* the locals of a second doMultiCallMany running on the same
                 \* client at the same time (a record; pc "idle" before it starts)
  probe,         \* a decode closure applied on its own: Nil, or a pointer to
                 \* the descriptor, the bytes and what the closure gave back
  pc,            \* "idle", "calling" (a chunk's eth_call is in flight), "done"
                 \* (the public form has returned or panicked)
  op,            \* the public form in progress
  typeArgs,      \* its type arguments
  requests,      \* the descriptors passed to it
  chunkedCalls,  \* doMultiCallMany: the chunks
  chunkNumber,   \* doMultiCallMany: chunkNumber
  results,       \* doMultiCallMany: results, a slice of interface{}
  totalResults,  \* doMultiCallMany: totalResults
  outputs,       \* doMultiCallMany: the returned list (Nil when none)
  err,           \* doMultiCallMany: the returned error
  ret,           \* what the public form handed back
  sent,          \* history: the call lists submitted to aggregate3, in order
  decodeLog,     \* history: the request indexes whose decoder was run, in order
  malformed      \* history: some chunk was answered with a number of results
                 \* other than its number of calls

vars == <<options, mc, emptyAsNil, block, cancelled, other, probe, pc, op, typeArgs,
          requests, chunkedCalls, chunkNumber, results, totalResults, outputs, err,
          ret, sent, decodeLog, malformed>>

NoRet == [status |-> "none", err |-> Nil, values |-> Nil]

\* the second invocation before it is called
NotStarted ==
  [pc |-> "idle", requests |-> <<>>, chunkedCalls |-> <<>>, results |-> <<>>,
   totalResults |-> 0, sent |-> <<>>, outputs |-> Nil, err |-> Nil, panic |-> FALSE]

Init ==
  /\ options \in OptionsSet
  /\ mc = NewMulticallClient(CallerCtx, options)
  /\ emptyAsNil \in BOOLEAN
  /\ block = 1
  /\ cancelled = FALSE
  /\ probe = Nil
  /\ other = NotStarted
  /\ pc = "idle"
  /\ op = "none"
  /\ typeArgs = <<>>
  /\ requests = <<>>
  /\ chunkedCalls = <<>>
  /\ chunkNumber = 1
  /\ results = <<>>
  /\ totalResults = 0
  /\ outputs = Nil
  /\ err = Nil
  /\ ret = NoRet
  /\ sent = <<>>
  /\ decodeLog = <<>>
  /\ malformed = FALSE

\* doMultiCallMany lines 306-337 and the public form's own tail, once the chunk
\* loop is over
Finish(name, types, reqs, res) ==
  LET d == DecodeOutputs(mapCollection(reqs, LAMBDA md, i : Raw(md)), res) IN
  /\ pc' = "done"
  /\ outputs' = IF d.panic THEN Nil ELSE Ptr(d.outputs)
  /\ err' = Nil
  /\ ret' = IF d.panic THEN Panicked ELSE FormReturn(name, types, d.outputs)
  /\ decodeLog' = DecodeLog(mapCollection(reqs, LAMBDA md, i : Raw(md)), res)

\* A public form is called: doMultiCallMany builds the typed calls, chunks them
\* and submits the first chunk (lines 276-294); with no chunk it finishes at once
Begin(name, types, reqs) ==
  LET calls == mapCollection(reqs, LAMBDA md, i : Raw(md))
      chunks == chunkCalls(TypedCalls(calls), IntOfUint(mc.MaxBatchSize))
      empty == [i \in 1..Len(calls) |-> Nil]
  IN
  /\ pc = "idle"
  /\ op' = name
  /\ typeArgs' = types
  /\ requests' = reqs
  /\ chunkedCalls' = chunks
  /\ results' = empty
  /\ totalResults' = 0
  /\ IF chunks = <<>>
     THEN /\ Finish(name, types, reqs, empty)
          /\ chunkNumber' = 1
          /\ sent' = <<>>
     ELSE /\ pc' = "calling"
          /\ chunkNumber' = 2
          /\ sent' = <<chunks[1]>>
          /\ outputs' = Nil
          /\ err' = Nil
          /\ ret' = NoRet
          /\ decodeLog' = <<>>
  /\ UNCHANGED <<malformed, other, probe, options, mc, emptyAsNil, block, cancelled>>

SeqsUpTo(S, n) == UNION {[1..k -> S] : k \in 0..n}

DoMany ==
  \E A \in Types :
    \E reqs \in SeqsUpTo({d \in Descriptors(mc) : d.T = A}, MaxCalls) :
      Begin("DoMany", <<A>>, reqs)

DoManyAllowFailures ==
  \E A \in Types :
    \E reqs \in SeqsUpTo({d \in Descriptors(mc) : d.T = A}, MaxCalls) :
      Begin("DoManyAllowFailures", <<A>>, reqs)

\* the arities of the fixed-arity forms that are explored: Do and Do3 (Do4, Do5
\* and Do6 repeat the same statement with one more argument each)
Arities == {2, 3}

DoFixed ==
  \E n \in Arities :
    \E reqs \in [1..n -> Descriptors(mc)] :
      Begin("DoFixed", [k \in 1..n |-> reqs[k].T], reqs)


\* the error Contract.Call fails with (a transport failure or a revert of
\* aggregate3 itself; the code treats every error alike)
TransportErrors == {"eth_call failed"}

\* the context an eth_call runs under: the one in the call options, or the
\* background context when the options are nil or carry none.  mc.Context is
\* not consulted (line 294 passes mc.OverrideCallOptions only).
CallContext(opts) ==
  IF opts = Nil \/ Deref(opts).Context = Nil
  THEN "background" ELSE Deref(Deref(opts).Context)

\* the in-flight eth_call runs under a context that has been cancelled
CallCancelled == cancelled /\ CallContext(mc.OverrideCallOptions) = CallerCtx

\* The eth_call of the chunk in flight has handed back multicallResults (line
\* 294, err = nil): they are stored (lines 299-303); then the next chunk is
\* submitted, or, after the last one, the results are decoded and the public
\* form returns
ChunkAnswered(multicallResults) ==
  LET k == Len(sent)
      st == StoreResults(results, totalResults, multicallResults)
  IN
  /\ results' = st.results
  /\ totalResults' = st.totalResults
  /\ IF st.panic
     THEN /\ pc' = "done"
          /\ outputs' = Nil
          /\ err' = Nil
          /\ ret' = Panicked
          /\ UNCHANGED <<chunkNumber, sent, decodeLog>>
     ELSE IF k < Len(chunkedCalls)
     THEN /\ chunkNumber' = chunkNumber + 1
          /\ sent' = Append(sent, chunkedCalls[k + 1])
          /\ UNCHANGED <<pc, outputs, err, ret, decodeLog>>
     ELSE /\ Finish(op, typeArgs, requests, st.results)
          /\ UNCHANGED <<chunkNumber, sent>>
  /\ UNCHANGED <<other, probe, options, mc, emptyAsNil, block, cancelled, op, typeArgs,
                 requests, chunkedCalls>>

\* aggregate3 answers the chunk in flight with one result per call
ChunkReturns ==
  /\ pc = "calling"
  /\ ~CallCancelled
  /\ ChunkAnswered(Aggregate3(chunkedCalls[Len(sent)],
                              EvalBlock(mc.OverrideCallOptions, block), emptyAsNil))
  /\ UNCHANGED malformed

\* faulty variant: a failed chunk is submitted once more
ChunkFails_Retries ==
  /\ pc = "calling"
  /\ sent' = Append(sent, sent[Len(sent)])
  /\ UNCHANGED <<malformed, other, probe, options, mc, emptyAsNil, block, cancelled, pc, op, typeArgs,
                 requests, chunkedCalls, chunkNumber, results, totalResults,
                 outputs, err, ret, decodeLog>>

\* faulty variant: when a chunk fails, the results of the chunks before it are
\* decoded all the same
ChunkFails_DecodesStored ==
  /\ pc = "calling"
  /\ err' = Errorf("aggregate3 failed: ", NewError("eth_call failed"))
  /\ ret' = WrapError(op, err')
  /\ outputs' = Nil
  /\ pc' = "done"
  /\ decodeLog' = DecodeLog(mapCollection(requests, LAMBDA md, i : Raw(md)), results)
  /\ UNCHANGED <<malformed, other, probe, options, mc, emptyAsNil, block, cancelled, op,
                 typeArgs, requests, chunkedCalls, chunkNumber, results, totalResults,
                 sent>>

\* faulty variant: a failed chunk makes the client fall back to the default
\* batch size
ChunkFails_ResetsBatchSize ==
  /\ pc = "calling"
  /\ err' = Errorf("aggregate3 failed: ", NewError("eth_call failed"))
  /\ ret' = WrapError(op, err')
  /\ outputs' = Nil
  /\ pc' = "done"
  /\ mc' = [mc EXCEPT !.MaxBatchSize = DefaultMaxBatchSize]
  /\ UNCHANGED <<malformed, other, probe, options, emptyAsNil, block, cancelled, op, typeArgs, requests,
                 chunkedCalls, chunkNumber, results, totalResults, sent, decodeLog>>

\* The eth_call of the chunk in flight fails (lines 295-297): doMultiCallMany
\* returns nil and the error, and the public form wraps it
ChunkFails ==
  /\ pc = "calling"
  /\ \E e \in (IF CallCancelled THEN {"context canceled"} ELSE TransportErrors) :
       LET failure == Errorf("aggregate3 failed: ", NewError(e)) IN
       /\ err' = failure
       /\ ret' = WrapError(op, failure)
  /\ outputs' = Nil
  /\ pc' = "done"
  /\ UNCHANGED <<malformed, other, probe, options, mc, emptyAsNil, block, cancelled, op, typeArgs, requests,
                 chunkedCalls, chunkNumber, results, totalResults, sent, decodeLog>>

\* the chain mines a block while a request is in progress
ChainAdvance ==
  /\ pc = "calling"
  /\ block < MaxBlock
  /\ block' = block + 1
  /\ UNCHANGED <<malformed, other, probe, options, mc, emptyAsNil, cancelled, pc, op, typeArgs, requests,
                 chunkedCalls, chunkNumber, results, totalResults, outputs, err, ret,
                 sent, decodeLog>>

Next ==
  \/ DoMany
  \/ DoManyAllowFailures
  \/ DoFixed
  \/ ChunkReturns
  \/ ChunkFails
  \/ ChainAdvance

Spec == Init /\ [][Next]_vars

\* the caller cancels the context it gave to NewMulticallClient while a request
\* is in progress
CancelContext ==
  /\ pc = "calling"
  /\ ~cancelled
  /\ cancelled' = TRUE
  /\ UNCHANGED <<malformed, other, probe, options, mc, emptyAsNil, block, pc, op, typeArgs, requests,
                 chunkedCalls, chunkNumber, results, totalResults, outputs, err, ret,
                 sent, decodeLog>>

NextCancel ==
  \/ Next
  \/ CancelContext

\* requests during which the caller may cancel its context
SpecCancel == Init /\ [][NextCancel]_vars

\* ------------------------------------------- two concurrent invocations
\* the variables of the first invocation and of the environment
firstVars == <<options, mc, emptyAsNil, block, cancelled, probe, pc, op, typeArgs,
               requests, chunkedCalls, chunkNumber, results, totalResults, outputs,
               err, ret, sent, decodeLog, malformed>>

\* the requests the second invocation is called with
OtherRequests(c) ==
  { <<GetBlockNumber(c), GetBalance(c, EOA)>>,
    <<Describe("big.Int", NFT, "balanceOf", <<"0x0", "pad">>), GetBlockNumber(c),
      Describe("big.Int", EOA, "balanceOf", <<EOA>>)>> }

\* faulty variant: the offset is a counter shared by all invocations
OwnTotalResults_Shared(o) == totalResults

\* var totalResults = 0 (line 288) is a local of each invocation
OwnTotalResults(o) == o.totalResults

\* doMultiCallMany lines 276-294 of the second invocation
OtherBegin ==
  /\ other.pc = "idle"
  /\ \E reqs \in OtherRequests(mc) :
       LET calls == mapCollection(reqs, LAMBDA md, i : Raw(md))
           chunks == chunkCalls(TypedCalls(calls), IntOfUint(mc.MaxBatchSize))
           empty == [i \in 1..Len(calls) |-> Nil]
           d == DecodeOutputs(calls, empty)
       IN
       other' =
         IF chunks = <<>>
         THEN [pc |-> "done", requests |-> reqs, chunkedCalls |-> chunks,
               results |-> empty, totalResults |-> 0, sent |-> <<>>,
               outputs |-> IF d.panic THEN Nil ELSE Ptr(d.outputs), err |-> Nil,
               panic |-> d.panic]
         ELSE [pc |-> "calling", requests |-> reqs, chunkedCalls |-> chunks,
               results |-> empty, totalResults |-> 0, sent |-> <<chunks[1]>>,
               outputs |-> Nil, err |-> Nil, panic |-> FALSE]
  /\ UNCHANGED firstVars

\* lines 294-337 of the second invocation: its chunk in flight returns
OtherChunkReturns ==
  /\ other.pc = "calling"
  /\ ~CallCancelled
  /\ LET k == Len(other.sent)
         b == EvalBlock(mc.OverrideCallOptions, block)
         multicallResults == Aggregate3(other.chunkedCalls[k], b, emptyAsNil)
         st == StoreResults(other.results, OwnTotalResults(other), multicallResults)
         calls == mapCollection(other.requests, LAMBDA md, i : Raw(md))
         d == DecodeOutputs(calls, st.results)
     IN
     other' =
       IF st.panic
       THEN [other EXCEPT !.pc = "done", !.panic = TRUE]
       ELSE IF k < Len(other.chunkedCalls)
       THEN [other EXCEPT !.results = st.results,
                          !.totalResults = st.totalResults,
                          !.sent = Append(other.sent, other.chunkedCalls[k + 1])]
       ELSE [other EXCEPT !.results = st.results,
                          !.totalResults = st.totalResults,
                          !.pc = "done",
                          !.outputs = IF d.panic THEN Nil ELSE Ptr(d.outputs),
                          !.panic = d.panic]
  /\ UNCHANGED firstVars

\* lines 295-297 of the second invocation: its chunk in flight fails
OtherChunkFails ==
  /\ other.pc = "calling"
  /\ \E e \in (IF CallCancelled THEN {"context canceled"} ELSE TransportErrors) :
       other' = [other EXCEPT !.pc = "done",
                              !.err = Errorf("aggregate3 failed: ", NewError(e))]
  /\ UNCHANGED firstVars

NextConc ==
  \/ DoMany
  \/ ChunkReturns
  \/ ChunkFails
  \/ OtherBegin
  \/ OtherChunkReturns
  \/ OtherChunkFails

\* a DoMany and a second aggregation running on one client at the same time
SpecConc == Init /\ [][NextConc]_vars

\* ------------------------------------- answers of the wrong length
\* the answers to a chunk that have one result fewer or one result more than
\* the well-formed answer
WrongLengthAnswers(answer) ==
  (IF Len(answer) > 0 THEN {SubSeq(answer, 1, Len(answer) - 1)} ELSE {}) \cup
  {Append(answer, [Success |-> TRUE, ReturnData |-> Bytes(<<"extra">>)])}

\* The eth_call of the chunk in flight returns (line 294, err = nil) a list whose
\* length is not the number of calls of the chunk; lines 299-337 run as for any
\* answer
ChunkReturnsMalformed ==
  /\ pc = "calling"
  /\ ~CallCancelled
  /\ \E answer \in WrongLengthAnswers(
                     Aggregate3(chunkedCalls[Len(sent)],
                                EvalBlock(mc.OverrideCallOptions, block), emptyAsNil)) :
       ChunkAnswered(answer)
  /\ malformed' = TRUE

NextMalformed ==
  \/ DoMany
  \/ DoManyAllowFailures
  \/ ChunkReturns
  \/ ChunkFails
  \/ ChunkReturnsMalformed

\* requests against an aggregate3 that may answer with the wrong number of results
SpecMalformed == Init /\ [][NextMalformed]_vars

\* the descriptors Describe builds in the decode runs: those of the requests,
\* and two whose type argument is not the type of the method's output
DescribeCalls(c) ==
  {d \in Descriptors(c) : d.Deserialize = "abi"} \cup
  { Describe("common.Address", NFT, "balanceOf", <<"0x0", "pad">>),
    Describe("big.Int", NFT, "ownerOf", <<"0", "pad">>) }

\* the return data handed to a decode closure
ReturnDatas == {<<>>, <<"1">>, <<"0xOwner">>}

\* The closure a descriptor carries is called on return data (as line 313 does)
ApplyDeserialize ==
  /\ pc = "idle"
  /\ \E md \in DescribeCalls(mc) : \E b \in ReturnDatas :
       probe' = Ptr([md |-> md, b |-> b, out |-> Deserialize(md, b)])
  /\ UNCHANGED <<malformed, other, options, mc, emptyAsNil, block, cancelled, pc, op,
                 typeArgs, requests, chunkedCalls, chunkNumber, results, totalResults,
                 outputs, err, ret, sent, decodeLog>>

NextDecode == ApplyDeserialize

\* decode closures of Describe applied to return data
SpecDecode == Init /\ [][NextDecode]_vars


\* ============================================================ properties
\* the request's type-erased calls, and the raw result stored for call i
RawCalls == mapCollection(requests, LAMBDA md, i : Raw(md))
RawResult(i) == Deref(results[i])

\* every chunk call succeeded and the aggregation is over
Aggregated == pc = "done" /\ err = Nil

\* what the decoder bound to descriptor i makes of the raw return data of call i
Decoded(i) == Deserialize(requests[i], RawResult(i).ReturnData.b)

\* call i failed on-chain, or the decode stage has no value for it (no return
\* data to decode, or the decoder returned an error)
EntryFails(i) ==
  \/ ~RawResult(i).Success
  \/ RawResult(i).ReturnData.isNil
  \/ Decoded(i).err # Nil

Indexes == 1..Len(requests)

\* C1: DoMany, when every chunk call succeeded, returns an error and no value
\* list if some call reported success = false or some decode failed; otherwise it
\* returns no error and exactly N values, value i being the decode of raw result i.
C1_DoManyAllOrNothing ==
  (Aggregated /\ op = "DoMany") =>
    /\ ret.status = "returned"
    /\ IF \E i \in Indexes : EntryFails(i)
       THEN ret.err # Nil /\ ret.values = Nil
       ELSE /\ ret.err = Nil
            /\ ret.values # Nil
            /\ Len(Deref(ret.values)) = Len(requests)
            /\ \A i \in Indexes : Deref(ret.values)[i] = Decoded(i).val

\* a DoMany over two calls of which exactly one failed has returned
C1_Witness ==
  /\ Aggregated /\ op = "DoMany" /\ Len(requests) = 2
  /\ EntryFails(1) /\ ~EntryFails(2)
  /\ ret.err # Nil

\* C2: Do, Do3 .. Do6 have DoMany's failure semantics: when a call reported
\* success = false, its decode failed or it had no return data, the form returns
\* a non-nil error and no values, and it returns rather than panics.
C2_FixedArityFailsLikeDoMany ==
  (Aggregated /\ op = "DoFixed" /\ \E i \in Indexes : EntryFails(i)) =>
    /\ ret.status = "returned"
    /\ ret.err # Nil
    /\ ret.values = Nil

\* C3: DoManyAllowFailures returns no error and exactly N outcomes whenever every
\* chunk call succeeded, whatever the per-call success flags and decode outcomes;
\* it returns an error only if a chunk call failed.
C3_AllowFailuresNeverFailsPerItem ==
  (pc = "done" /\ op = "DoManyAllowFailures") =>
    /\ ret.status = "returned"
    /\ (err = Nil) =>
         /\ ret.err = Nil
         /\ ret.values # Nil
         /\ Len(Deref(ret.values)) = Len(requests)
    /\ (ret.err # Nil) => (err # Nil)

\* a best-effort request whose two calls both failed per item has returned
C3_Witness ==
  /\ Aggregated /\ op = "DoManyAllowFailures" /\ Len(requests) = 2
  /\ ~RawResult(1).Success
  /\ RawResult(2).Success /\ Decoded(2).err # Nil
  /\ ret.err = Nil

\* C4: every entry of DoManyAllowFailures' outcome list whose call failed on-chain
\* or whose decode raised an error has success = false and a non-nil Error.
C4_FailedEntryCarriesError ==
  (Aggregated /\ op = "DoManyAllowFailures" /\ ret.values # Nil) =>
    \A i \in Indexes :
      EntryFails(i) =>
        /\ ~Deref(ret.values)[i].Success
        /\ Deref(ret.values)[i].Error # Nil

\* C5: entry i of DoManyAllowFailures' outcome list has success = true and the
\* decoded value of call i exactly when raw result i reports success and its
\* decode succeeded, and success = false otherwise; the entry is determined by
\* call i alone, whatever happens at the other indexes.
ExpectedEntry(md, blk) ==
  LET r == ToMulticall3Result(EvalCall(TypedCall(Raw(md)), blk), emptyAsNil)
      d == Deserialize(md, r.ReturnData.b)
  IN IF r.Success /\ ~r.ReturnData.isNil /\ d.err = Nil
     THEN [success |-> TRUE, value |-> d.val]
     ELSE [success |-> FALSE, value |-> NilPtr(md.T)]

C5_AllowFailuresEntryPerIndex ==
  (Aggregated /\ op = "DoManyAllowFailures" /\ ret.values # Nil) =>
    \A i \in Indexes :
      LET e == Deref(ret.values)[i] IN
      /\ IF ~EntryFails(i)
         THEN e.Success /\ e.Value = Decoded(i).val
         ELSE ~e.Success
      /\ \E blk \in 1..MaxBlock :
           /\ e.Success = ExpectedEntry(requests[i], blk).success
           /\ e.Success => e.Value = ExpectedEntry(requests[i], blk).value

\* a best-effort request with a failed entry before a decoded one has returned
C5_Witness ==
  /\ Aggregated /\ op = "DoManyAllowFailures" /\ Len(requests) = 2
  /\ ret.values # Nil
  /\ EntryFails(1) /\ ~Deref(ret.values)[1].Success
  /\ ~EntryFails(2) /\ Deref(ret.values)[2].Success


\* what a well-behaved aggregate3 answers to input call i when evaluated at blk
AnswerTo(i, blk) ==
  ToMulticall3Result(EvalCall(TypedCall(RawCalls[i]), blk), emptyAsNil)

\* C6: for a call list split across K >= 1 chunks, each answered with one result
\* per call in order, doMultiCallMany's list has one entry per call and entry i is
\* the result of input call i, wherever the chunk boundaries fall.
C6_AggregationPreservesOrder ==
  Aggregated =>
    /\ outputs # Nil
    /\ Len(Deref(outputs)) = Len(requests)
    /\ Len(results) = Len(requests)
    /\ totalResults = Len(requests)
    /\ \A i \in Indexes :
         \E blk \in 1..MaxBlock :
           /\ results[i] = Ptr(AnswerTo(i, blk))
           /\ Deref(outputs)[i] = DecodeOne(RawCalls[i], AnswerTo(i, blk))

\* three calls with three different answers went out in more than one chunk
C6_Witness ==
  /\ Aggregated /\ Len(requests) = 3 /\ Len(sent) >= 2
  /\ \A i, j \in Indexes : i # j => results[i] # results[j]
  /\ \E k \in 1..Len(sent) : Len(sent[k]) = 2

RECURSIVE Flatten(_)
Flatten(chunks) == IF chunks = <<>> THEN <<>> ELSE Head(chunks) \o Flatten(Tail(chunks))

RECURSIVE PayloadSize(_)
PayloadSize(chunk) ==
  IF chunk = <<>> THEN 0 ELSE Len(Head(chunk).CallData) + PayloadSize(Tail(chunk))

\* the maxBatchSizeBytes chunkCalls was called with
MaxBytes == IntOfUint(mc.MaxBatchSize)

\* C7: for maxBytes >= 1, concatenating the chunks chunkCalls returns, in order,
\* reproduces its input list: no call dropped, duplicated, reordered or split.
C7_ChunksConcatenateToInput ==
  (pc # "idle" /\ MaxBytes >= 1) =>
    Flatten(chunkedCalls) = TypedCalls(RawCalls)

\* three calls were chunked into two chunks or more
C7_Witness ==
  /\ pc # "idle" /\ MaxBytes >= 1
  /\ Len(requests) = 3 /\ Len(chunkedCalls) >= 2
  /\ \E k \in 1..Len(chunkedCalls) : Len(chunkedCalls[k]) = 2

\* C8: the payload sizes of each chunk sum to at most maxBytes, unless the chunk
\* is a single call whose own payload exceeds maxBytes.
C8_ChunkWithinMaxBytes ==
  (pc # "idle" /\ MaxBytes >= 1) =>
    \A k \in 1..Len(chunkedCalls) :
      \/ PayloadSize(chunkedCalls[k]) <= MaxBytes
      \/ /\ Len(chunkedCalls[k]) = 1
         /\ Len(chunkedCalls[k][1].CallData) > MaxBytes

\* a chunk filled exactly to maxBytes by two calls is followed by an oversized
\* call alone in its chunk
C8_Witness ==
  /\ pc # "idle" /\ MaxBytes >= 1
  /\ \E k \in 1..Len(chunkedCalls) :
       /\ k > 1
       /\ Len(chunkedCalls[k - 1]) = 2
       /\ PayloadSize(chunkedCalls[k - 1]) = MaxBytes
       /\ Len(chunkedCalls[k]) = 1
       /\ PayloadSize(chunkedCalls[k]) > MaxBytes

\* C9: when the external call of a chunk fails, the whole aggregation fails with
\* one error, with no results and no decoded values, even after earlier chunks
\* succeeded, in DoMany, DoManyAllowFailures and the fixed-arity forms alike.
C9_ChunkFailureAbortsAll ==
  (pc = "done" /\ err # Nil) =>
    /\ outputs = Nil
    /\ ret.status = "returned"
    /\ ret.err # Nil
    /\ ret.values = Nil

\* the second chunk's call failed after the first chunk's results were stored
C9_Witness ==
  /\ pc = "done" /\ err # Nil
  /\ Len(sent) = 2 /\ totalResults > 0
  /\ ret.err # Nil

\* the first index whose call failed on-chain or in the decode stage
FirstFailing == CHOOSE i \in Indexes : EntryFails(i) /\ \A j \in 1..(i - 1) : ~EntryFails(j)

\* the message of error e has index i among its pieces
Mentions(e, i) == \E k \in 1..Len(Deref(e)) : Deref(e)[k] = ToString(i)

DoManyFailedPerCall ==
  /\ Aggregated /\ op = "DoMany"
  /\ \E i \in Indexes : EntryFails(i)
  /\ ret.status = "returned"

\* C10 as claimed: when DoMany fails because of a per-call on-chain failure or a
\* decode failure, its error identifies the (first) failing index.
C10_ErrorNamesFailingIndex ==
  DoManyFailedPerCall =>
    /\ ret.err # Nil
    /\ Mentions(ret.err, FirstFailing) \/ Mentions(ret.err, FirstFailing - 1)

\* C10 as amended: when DoMany fails because of a per-call on-chain failure or a
\* decode failure, it returns the fixed error "1 or more calls failed", the same
\* whichever calls failed and however many.
C10_ErrorIsGeneric ==
  DoManyFailedPerCall => ret.err = NewError("1 or more calls failed")

\* DoMany has failed on a request whose first call succeeded and second failed
C10_Witness ==
  /\ DoManyFailedPerCall /\ Len(requests) = 2
  /\ ~EntryFails(1) /\ EntryFails(2)
  /\ ret.err # Nil


\* C11: when the same descriptor appears at two positions of one request, the
\* all-or-nothing forms return equal decoded values at the two positions, also
\* when the positions fall in different chunks and for getBlockNumber.
C11_DuplicateDescriptorsEqual ==
  (Aggregated /\ op \in {"DoMany", "DoFixed"} /\ ret.status = "returned"
     /\ ret.values # Nil) =>
    \A i, j \in Indexes :
      requests[i] = requests[j] => Deref(ret.values)[i] = Deref(ret.values)[j]

\* C12: all reads of one request reflect the chain as of one block, for one chunk
\* or several, even if the chain advances while the request is in progress.
C12_ReadsAsOfOneBlock ==
  Aggregated =>
    \E blk \in 1..MaxBlock : \A i \in Indexes : results[i] = Ptr(AnswerTo(i, blk))

\* C13: a non-empty request whose payload sizes sum to at most the client's
\* maximum batch size goes out as exactly one aggregate3 call; more than one call
\* is issued only when the sum exceeds the maximum batch size.
C13_OneCallWithinBatchSize ==
  (pc # "idle" /\ Len(requests) > 0) =>
    LET total == PayloadSize(TypedCalls(RawCalls)) IN
    /\ (total <= mc.MaxBatchSize) => (Len(chunkedCalls) = 1 /\ Len(sent) = 1)
    /\ (Len(sent) > 1) => (total > mc.MaxBatchSize)

\* C14: NewMulticallClient with a transport: nil options or unset option fields
\* give the canonical Multicall3 address and a maximum batch size of 8192; an
\* address override, a non-zero batch size and call options are held as supplied.
C14_ConstructorDefaultsAndOverrides ==
  LET canonical == "0xcA11bde05977b3631167028862bE2a173976CA11" IN
  /\ options = Nil =>
       /\ mc.Address = canonical
       /\ mc.MaxBatchSize = 8192
       /\ mc.OverrideCallOptions = Nil
  /\ options # Nil =>
       LET o == Deref(options) IN
       /\ o.OverrideContractAddress = Nil => mc.Address = canonical
       /\ o.OverrideContractAddress # Nil =>
            mc.Address = Deref(o.OverrideContractAddress)
       /\ o.MaxBatchSizeBytes = 0 => mc.MaxBatchSize = 8192
       /\ o.MaxBatchSizeBytes # 0 => mc.MaxBatchSize = o.MaxBatchSizeBytes
       /\ mc.OverrideCallOptions = o.OverrideCallOptions

\* a client built from options that override all three fields, in use
C14_Witness ==
  /\ options # Nil
  /\ Deref(options).OverrideContractAddress = Ptr(OtherMulticall)
  /\ Deref(options).OverrideCallOptions # Nil
  /\ mc.Address = OtherMulticall
  /\ mc.MaxBatchSize = 2
  /\ mc.OverrideCallOptions # Nil
  /\ pc = "done"

\* C15: once the context given to NewMulticallClient is cancelled during an
\* aggregation, no further chunk call is issued and the aggregation can only end
\* with an error and no results.
C15_CancellationStopsAggregation ==
  [][cancelled =>
       /\ sent' = sent
       /\ pc' = "done" => (err' # Nil /\ outputs' = Nil)]_vars

\* C17: no step of an aggregation changes the client's configuration (address,
\* maximum batch size, call options), and the descriptors passed to the
\* operation stay as they were passed, whether it succeeds or fails.
C17_ClientAndDescriptorsUnchanged ==
  [][/\ mc' = mc
     /\ pc # "idle" => requests' = requests]_vars

\* a two-descriptor request that failed, with the client as constructed
C17_Witness ==
  /\ pc = "done"
  /\ err # Nil
  /\ Len(requests) = 2
  /\ mc = NewMulticallClient(CallerCtx, options)
  /\ mc.MaxBatchSize # DefaultMaxBatchSize

\* the number of calls in the first n submitted chunks
SentCalls(n) == Len(Flatten(SubSeq(sent, 1, n)))

\* C19: chunks are submitted one at a time in chunk order, each at most once;
\* chunk k+1 is submitted only after chunk k returned successfully (its results
\* are stored), and after a failed chunk nothing more is submitted.
C19_ChunksSubmittedInOrderOnce ==
  /\ Len(sent) <= Len(chunkedCalls)
  /\ \A k \in 1..Len(sent) : sent[k] = chunkedCalls[k]
  /\ pc = "calling" =>
       /\ Len(sent) >= 1
       /\ chunkNumber = Len(sent) + 1
       /\ totalResults = SentCalls(Len(sent) - 1)
       /\ \A i \in 1..totalResults : results[i] # Nil
  /\ (pc = "done" /\ err # Nil) =>
       /\ Len(sent) >= 1
       /\ totalResults = SentCalls(Len(sent) - 1)
  /\ Aggregated =>
       /\ sent = chunkedCalls
       /\ totalResults = SentCalls(Len(sent))

\* a request of three chunks, all submitted and answered
C19_Witness == Aggregated /\ Len(sent) = 3 /\ totalResults = 3

\* C20: every call submitted to aggregate3, in every chunk, allows failure and
\* carries the address and data of the descriptor at the same request index.
C20_SubmittedCallsMirrorDescriptors ==
  LET flat == Flatten(sent) IN
  /\ Len(flat) <= Len(requests)
  /\ \A i \in 1..Len(flat) :
       /\ flat[i].AllowFailure = TRUE
       /\ flat[i].Target = requests[i].Address
       /\ flat[i].CallData = requests[i].Data

\* three calls submitted in more than one chunk
C20_Witness == pc = "done" /\ Len(sent) >= 2 /\ Len(Flatten(sent)) = 3

\* C18: the decode closure Describe binds returns an error and no value whenever
\* the ABI decoder fails or the first output cannot be converted to T, and never
\* returns a nil value without an error.
C18_DecodeFailureIsAnError ==
  probe # Nil =>
    LET p == Deref(probe)
        T == p.md.T
        undecodable == Unpack(p.md.FunctionName, p.b).err # Nil
        inconvertible == ~undecodable /\ OutputType(p.md.FunctionName) # T
    IN
    /\ (undecodable \/ inconvertible) =>
         (~p.out.panic /\ p.out.err # Nil /\ p.out.val = NilPtr(T))
    /\ ~(~p.out.panic /\ p.out.err = Nil /\ p.out.val = NilPtr(T))

\* what the entry of a descriptor is when its call is answered as of block blk
EntryAsOf(md, blk) ==
  DecodeOne(Raw(md), ToMulticall3Result(EvalCall(TypedCall(Raw(md)), blk), emptyAsNil))

\* C16: two aggregations running at the same time on one client do not interfere:
\* each keeps its own result buffer and offset, and each successful one returns a
\* list of its own length whose entry i is the decoded answer to its own call i.
C16_ConcurrentAggregationsIndependent ==
  /\ other.pc = "calling" =>
       /\ other.totalResults = Len(Flatten(SubSeq(other.sent, 1, Len(other.sent) - 1)))
       /\ Len(other.results) = Len(other.requests)
       /\ \A i \in 1..Len(other.results) :
            (other.results[i] # Nil) <=> (i <= other.totalResults)
  /\ pc = "calling" =>
       /\ totalResults = SentCalls(Len(sent) - 1)
       /\ Len(results) = Len(requests)
       /\ \A i \in 1..Len(results) : (results[i] # Nil) <=> (i <= totalResults)
  /\ (other.pc = "done" /\ other.err = Nil) =>
       /\ ~other.panic
       /\ other.outputs # Nil
       /\ Len(Deref(other.outputs)) = Len(other.requests)
       /\ \A i \in 1..Len(other.requests) :
            \E blk \in 1..MaxBlock :
              Deref(other.outputs)[i] = EntryAsOf(other.requests[i], blk)
  /\ Aggregated =>
       /\ ret # Panicked
       /\ outputs # Nil
       /\ Len(Deref(outputs)) = Len(requests)
       /\ \A i \in Indexes :
            \E blk \in 1..MaxBlock : Deref(outputs)[i] = EntryAsOf(requests[i], blk)

\* both aggregations in flight, each with a chunk already answered
C16_Witness ==
  /\ pc = "calling"
  /\ other.pc = "calling"
  /\ totalResults >= 1
  /\ other.totalResults >= 1
  /\ requests # other.requests

\* the set of request indexes whose decoder was run
DecodedIndexes == {decodeLog[j] : j \in 1..Len(decodeLog)}

\* C21: in one submission the decoder of index i is run at most once, and only
\* when raw result i reports success with non-empty return data; for a failed
\* result or empty return data (absent or zero-length) it is not run and the
\* entry is reported as failed.
C21_DecodeOnlyOnNonEmptySuccess ==
  pc = "done" =>
    /\ \A j, k \in 1..Len(decodeLog) : decodeLog[j] = decodeLog[k] => j = k
    /\ \A i \in DecodedIndexes :
         /\ results[i] # Nil
         /\ Deref(results[i]).Success
         /\ Deref(results[i]).ReturnData.b # <<>>
    /\ outputs # Nil =>
         \A i \in 1..Len(requests) :
           (~Deref(results[i]).Success \/ Deref(results[i]).ReturnData.b = <<>>) =>
             (i \notin DecodedIndexes /\ ~Deref(outputs)[i].Success)

\* C22: for every input list and maxBytes >= 1, every chunk chunkCalls returns
\* holds at least one call, also when the first call alone exceeds maxBytes; so
\* no aggregate3 call is submitted with an empty call list and the number of
\* external calls never exceeds the number of calls of the request.
C22_NoEmptyChunk ==
  (pc # "idle" /\ MaxBytes >= 1) =>
    /\ \A k \in 1..Len(chunkedCalls) : chunkedCalls[k] # <<>>
    /\ \A k \in 1..Len(sent) : sent[k] # <<>>
    /\ Len(sent) <= Len(requests)

\* C23: chunkCalls is greedy: for every two consecutive chunks, the payload size
\* of the earlier chunk plus the payload size of the first call of the later one
\* is strictly greater than maxBytes.
C23_ChunkBoundariesForced ==
  pc # "idle" =>
    \A k \in 1..(Len(chunkedCalls) - 1) :
      /\ chunkedCalls[k + 1] # <<>>
      /\ PayloadSize(chunkedCalls[k]) + Len(chunkedCalls[k + 1][1].CallData) > MaxBytes

\* two calls share the first chunk and a third had to start the next one
C23_Witness ==
  /\ pc # "idle"
  /\ MaxBytes >= 1
  /\ Len(chunkedCalls) = 2
  /\ Len(chunkedCalls[1]) = 2
  /\ PayloadSize(chunkedCalls[1]) = MaxBytes

\* C24: within one aggregation every chunk call precedes every decode: no decoder
\* runs while chunks are still outstanding, decoding happens only once all chunks
\* have returned, and after a failed chunk call no decoder has run at all.
C24_DecodeAfterAllChunks ==
  /\ pc = "calling" => decodeLog = <<>>
  /\ err # Nil => decodeLog = <<>>
  /\ decodeLog # <<>> =>
       /\ pc = "done"
       /\ err = Nil
       /\ sent = chunkedCalls
       /\ totalResults = SentCalls(Len(sent))

\* a request of several chunks, all answered, whose decoders then ran
C24_Witness ==
  /\ Aggregated
  /\ Len(sent) >= 2
  /\ Len(decodeLog) >= 2

\* C25: DoMany or DoManyAllowFailures with no descriptor submits no aggregate3
\* call and returns an empty result list and no error.
C25_EmptyRequestNoCall ==
  (pc # "idle" /\ op \in {"DoMany", "DoManyAllowFailures"} /\ requests = <<>>) =>
    /\ pc = "done"
    /\ chunkedCalls = <<>>
    /\ sent = <<>>
    /\ ret = Returned(Nil, Ptr(<<>>))

\* DoMany was called with no descriptor and has returned
C25_Witness ==
  /\ op = "DoMany"
  /\ requests = <<>>
  /\ ret.status = "returned"
  /\ sent = <<>>

\* C26: when some chunk is answered with a number of results other than its
\* number of calls, the aggregation returns an error: it does not crash, and it
\* does not return a list in which an entry comes from the answer to another call.
C26_WrongLengthIsAnError ==
  (malformed /\ pc = "done") =>
    /\ ret.status = "returned"
    /\ ret.err # Nil
    /\ outputs = Nil

\* C27: every entry of a list doMultiCallMany returns has one of two shapes:
\* Success = true with the value the index's decoder returned, or Success = false
\* with an error ("call failed", "no data returned" or the decoder's error); never
\* Success = true with an error, never Success = false with a decoded value.
C27_EntryShapes ==
  outputs # Nil =>
    /\ Len(Deref(outputs)) = Len(requests)
    /\ \A i \in 1..Len(Deref(outputs)) :
         LET o == Deref(outputs)[i]
             d == Decoded(i)
         IN
         \/ /\ o.Success
            /\ o.Value.kind = "ptr"
            /\ RawResult(i).Success
            /\ d.err = Nil
            /\ o.Value = d.val
         \/ /\ ~o.Success
            /\ o.Value.kind = "error"
            /\ \/ o.Value = ErrorValue(NewError("call failed"))
               \/ o.Value = ErrorValue(NewError("no data returned"))
               \/ d.err # Nil /\ o.Value = ErrorValue(d.err)

\* a returned list holding a decoded entry and an entry whose decoder failed
C27_Witness ==
  /\ outputs # Nil
  /\ \E i, j \in 1..Len(requests) :
       /\ Deref(outputs)[i].Success
       /\ ~Deref(outputs)[j].Success
       /\ RawResult(j).Success
       /\ ~RawResult(j).ReturnData.isNil

====
